---- MODULE Spec2Model ----
(***************************************************************************)
(* Model of the barcode scanner's code resolution pipeline:                *)
(*   src/test.py        - the barcode-only variant (checksum validation,   *)
(*                        five providers, all-null results are skipped)    *)
(*   src/qr_scanner.py  - the SDK variant (no validation, four providers,  *)
(*                        every looked-up code is recorded)                *)
(* Texts of symbols are sequences of characters, a character being its     *)
(* Unicode code point.                                                     *)
(* JSON objects are TLA+ records, JSON null / Python None is the value     *)
(* None, JSON arrays are sequences.                                        *)
(***************************************************************************)
EXTENDS Integers, Sequences, FiniteSets, TLC

VARIABLES variant, locale, pc, disk, loaded, records, seen, clock, ocr, queue,
          cur, code, idx, calls, trace, info, outcome, everSeen, exhausted

vars == <<variant, locale, pc, disk, loaded, records, seen, clock, ocr, queue,
          cur, code, idx, calls, trace, info, outcome, everSeen, exhausted>>

(***************************************************************************)
(* Bounds of the model.                                                    *)
(***************************************************************************)
\* the symbols of one frame
MaxSymbols == 1

\* the records appended, over all runs
MaxRecords == 2

\* the applications of the normalization to one text
MaxApplications == 2

(***************************************************************************)
(* Python values.                                                          *)
(***************************************************************************)
None == "<None>"

\* Python truth value of None or of a string
Truthy(v) == v # None /\ v # ""

\* Python's `a or b`
Or(a, b) == IF Truthy(a) THEN a ELSE b

\* dict.get(key) and dict.get(key, default)
GetOr(d, k, default) == IF k \in DOMAIN d THEN d[k] ELSE default

Get(d, k) == GetOr(d, k, None)

\* A character is its Unicode code point.  '0'..'9' are 48..57; 178 is the
\* superscript two, a character for which str.isdigit() is true and int()
\* raises ValueError; 1632..1641 are the Arabic-Indic digits, which both
\* str.isdigit() and int() accept.
IsDigitChar(ch) == ch \in 48..57 \/ ch = 178 \/ ch \in 1632..1641

\* str.isdigit(): non-empty and every character a digit character
IsDigit(s) == Len(s) > 0 /\ \A i \in 1..Len(s) : IsDigitChar(s[i])

\* int(ch) raises ValueError
IntRaises(ch) == ~(ch \in 48..57 \/ ch \in 1632..1641)

\* int(ch) for a character int() accepts
IntOf(ch) == IF ch \in 48..57 THEN ch - 48 ELSE ch - 1632

\* the text of a string of ASCII digits, given as a tuple of digits
Text(ds) == [i \in 1..Len(ds) |-> 48 + ds[i]]

\* sep.join(list) with sep = ", "
RECURSIVE Join(_)
Join(tags) ==
    IF tags = <<>> THEN ""
    ELSE IF Len(tags) = 1 THEN tags[1]
    ELSE tags[1] \o ", " \o Join(Tail(tags))

(***************************************************************************)
(* Symbol Validator (src/test.py).                                         *)
(***************************************************************************)
\* mutant: the weights are 5 and 1
RECURSIVE WeightedSum_Weight5(_, _)
WeightedSum_Weight5(rev, j) ==
    IF j > Len(rev) THEN 0
    ELSE rev[j] * (IF (j - 1) % 2 = 0 THEN 5 ELSE 1) + WeightedSum_Weight5(rev, j + 1)

\* sum(d * (3 if i % 2 == 0 else 1) for i, d in enumerate(digits)), where
\* digits is the reversed list: rev[j], j = 1..n, has enumerate index j-1
RECURSIVE WeightedSum(_, _)
WeightedSum(rev, j) ==
    IF j > Len(rev) THEN 0
    ELSE rev[j] * (IF (j - 1) % 2 = 0 THEN 3 ELSE 1) + WeightedSum(rev, j + 1)

Reverse(s) == [i \in 1..Len(s) |-> s[Len(s) + 1 - i]]

\* list(map(int, code)) raises ValueError: the call does not return
validate_ean_generic_raises(c) ==
    /\ Len(c) \in {8, 13}
    /\ IsDigit(c)
    /\ \E i \in 1..Len(c) : IntRaises(c[i])

\* the value validate_ean_generic returns, when it returns
validate_ean_generic(c) ==
    IF Len(c) \notin {8, 13} \/ ~IsDigit(c) THEN FALSE
    ELSE LET all == [i \in 1..Len(c) |-> IntOf(c[i])]
             checksum == all[Len(c)]
             digits == Reverse(SubSeq(all, 1, Len(c) - 1))
             total == WeightedSum(digits, 1)
         IN  (10 - (total % 10)) % 10 = checksum

\* mutant: the leading "0" is not prepended
validate_upca_NoZero(c) ==
    IF Len(c) # 12 \/ ~IsDigit(c) THEN FALSE
    ELSE validate_ean_generic(c)

validate_upca_raises(c) ==
    Len(c) = 12 /\ IsDigit(c) /\ validate_ean_generic_raises(<<48>> \o c)

validate_upca(c) ==
    IF Len(c) # 12 \/ ~IsDigit(c) THEN FALSE
    ELSE validate_ean_generic(<<48>> \o c)

(***************************************************************************)
(* Code Normalizer: the head of lookup_barcode (both variants).            *)
(***************************************************************************)
\* mutant: the normalization puts two zeros in front of 11 digits
Normalize_TwoZeros(c) ==
    IF Len(c) = 11 /\ IsDigit(c) THEN <<48, 48>> \o c
    ELSE IF Len(c) = 13 /\ c[1] = 48 THEN Tail(c)
    ELSE c

Normalize(c) ==
    IF Len(c) = 11 /\ IsDigit(c) THEN <<48>> \o c
    ELSE IF Len(c) = 13 /\ c[1] = 48 THEN Tail(c)
    ELSE c

(***************************************************************************)
(* Provider responses.  A response is what requests.get produces:          *)
(*   net    - "ok", or the exception requests.get raises ("error",         *)
(*            "timeout" after the 3 second timeout)                        *)
(*   status - the HTTP status                                              *)
(*   json   - what r.json() gives: "dict" (body is the object), "list" (a  *)
(*            JSON value that is no object), "invalid" (r.json() raises)   *)
(***************************************************************************)
EmptyObj == [k \in {} |-> None]

\* mutant: the fallback returns empty strings
NullInfo_Empty == [title |-> "", brand |-> "", description |-> "", category |-> ""]

NullInfo == [title |-> None, brand |-> None, description |-> None, category |-> None]

\* what one try-block of lookup_barcode does: return a ProductInfo or fall through
Hit(i) == [hit |-> TRUE, info |-> i]

Miss == [hit |-> FALSE, info |-> NullInfo]

\* Response.ok: raise_for_status() does not raise
Ok(status) == status < 400

\* the object r.json() returns can be used as a dict
JsonDict(r) == r.net = "ok" /\ r.json = "dict"

\* mutant: the block finds the product but does not return
BarcodeMonster_NoReturn(v, r) ==
    IF r.net = "ok" /\ r.status = 200 /\ JsonDict(r) /\ Truthy(Get(r.body, "product"))
    THEN [hit |-> FALSE,
          info |-> [title |-> Get(r.body, "product"), brand |-> Get(r.body, "brand"),
                    description |-> Or(Get(r.body, "description"), Get(r.body, "product")),
                    category |-> Get(r.body, "category")]]
    ELSE Miss

\* 1) BarcodeMonster: test.py requires status 200, qr_scanner.py r.ok
BarcodeMonster(v, r) ==
    IF r.net # "ok" THEN Miss
    ELSE IF ~(IF v = "test" THEN r.status = 200 ELSE Ok(r.status)) THEN Miss
    ELSE IF ~JsonDict(r) THEN Miss
    ELSE IF ~Truthy(Get(r.body, "product")) THEN Miss
    ELSE LET d == r.body
         IN  Hit([title |-> Get(d, "product"),
                  brand |-> Get(d, "brand"),
                  description |-> Or(Get(d, "description"), Get(d, "product")),
                  category |-> Get(d, "category")])

\* 2) UPCitemdb
UPCitemdb(r) ==
    IF ~JsonDict(r) THEN Miss
    ELSE LET items == GetOr(r.body, "items", <<>>)
         IN  IF items = <<>> THEN Miss
             ELSE LET item == items[1]
                  IN  Hit([title |-> Or(Get(item, "title"), Get(item, "model")),
                           brand |-> Get(item, "brand"),
                           description |-> Or(Get(item, "description"), Get(item, "title")),
                           category |-> Get(item, "category")])

\* 3) OpenFoodFacts: data["product"] raises KeyError when the key is absent
OpenFoodFacts(r) ==
    IF ~JsonDict(r) THEN Miss
    ELSE IF GetOr(r.body, "status", 0) # 1 THEN Miss
    ELSE IF "product" \notin DOMAIN r.body THEN Miss
    ELSE LET prod == r.body["product"]
         IN  Hit([title |-> Get(prod, "product_name"),
                  brand |-> Get(prod, "brands"),
                  description |-> Or(Get(prod, "generic_name"), Get(prod, "product_name")),
                  category |-> Or(Get(prod, "categories"),
                                  Join(GetOr(prod, "categories_tags", <<>>)))])

\* 4) BarcodeLookup.com (test.py only)
BarcodeLookup(r) ==
    IF ~JsonDict(r) THEN Miss
    ELSE LET prods == GetOr(r.body, "products", <<>>)
         IN  IF prods = <<>> THEN Miss
             ELSE LET p == prods[1]
                  IN  Hit([title |-> Get(p, "title"),
                           brand |-> Get(p, "brand"),
                           description |-> Or(Get(p, "description"), Get(p, "title")),
                           category |-> Get(p, "category")])

\* 5) Google Shopping via SerpAPI
SerpAPI(r) ==
    IF ~JsonDict(r) THEN Miss
    ELSE LET results == GetOr(r.body, "shopping_results", <<>>)
         IN  IF results = <<>> THEN Miss
             ELSE LET res == results[1]
                  IN  Hit([title |-> Get(res, "title"),
                           brand |-> Get(res, "source"),
                           description |-> Get(res, "description"),
                           category |-> Get(res, "category")])

\* mutant: the first provider is requested a second time
Providers_Repeated(v) ==
    IF v = "test"
    THEN <<"BarcodeMonster", "BarcodeMonster", "UPCitemdb", "OpenFoodFacts",
           "BarcodeLookup", "SerpAPI">>
    ELSE <<"BarcodeMonster", "BarcodeMonster", "UPCitemdb", "OpenFoodFacts", "SerpAPI">>

\* the fixed order of the try-blocks of lookup_barcode
Providers(v) ==
    IF v = "test"
    THEN <<"BarcodeMonster", "UPCitemdb", "OpenFoodFacts", "BarcodeLookup", "SerpAPI">>
    ELSE <<"BarcodeMonster", "UPCitemdb", "OpenFoodFacts", "SerpAPI">>

\* the try-block of provider p applied to the response r
TryProvider(v, p, r) ==
    CASE p = "BarcodeMonster" -> BarcodeMonster(v, r)
      [] p = "UPCitemdb"      -> UPCitemdb(r)
      [] p = "OpenFoodFacts"  -> OpenFoodFacts(r)
      [] p = "BarcodeLookup"  -> BarcodeLookup(r)
      [] p = "SerpAPI"        -> SerpAPI(r)

(***************************************************************************)
(* The log file.  json.dump(records, f, ensure_ascii=False) on a file      *)
(* opened with encoding="utf-8" writes every text as its UTF-8 bytes;      *)
(* json.load reads them back through the encoding the file was opened      *)
(* with: "utf-8" in test.py, the locale's preferred encoding in            *)
(* qr_scanner.py (open(log_path, "r") names none).                         *)
(***************************************************************************)
\* the UTF-8 bytes of one character
Utf8Char(ch) ==
    IF ch < 128 THEN <<ch>>
    ELSE IF ch < 2048 THEN <<192 + (ch \div 64), 128 + (ch % 64)>>
    ELSE <<224 + (ch \div 4096), 128 + ((ch \div 64) % 64), 128 + (ch % 64)>>

RECURSIVE Utf8Encode(_)
Utf8Encode(text) ==
    IF text = <<>> THEN <<>>
    ELSE Utf8Char(Head(text)) \o Utf8Encode(Tail(text))

RECURSIVE Utf8Decode(_)
Utf8Decode(bytes) ==
    IF bytes = <<>> THEN <<>>
    ELSE IF bytes[1] < 128
         THEN <<bytes[1]>> \o Utf8Decode(Tail(bytes))
    ELSE IF bytes[1] < 224
         THEN <<(bytes[1] - 192) * 64 + (bytes[2] - 128)>>
              \o Utf8Decode(SubSeq(bytes, 3, Len(bytes)))
    ELSE <<(bytes[1] - 224) * 4096 + (bytes[2] - 128) * 64 + (bytes[3] - 128)>>
         \o Utf8Decode(SubSeq(bytes, 4, Len(bytes)))

\* bytes the cp1252 codec has no character for: decoding raises
Cp1252Undefined == {129, 141, 143, 144, 157}

\* the character the cp1252 codec decodes one byte to
Cp1252Char(b) ==
    IF b < 128 \/ b >= 160 THEN b
    ELSE CASE b = 128 -> 8364 [] b = 130 -> 8218 [] b = 131 -> 402
           [] b = 132 -> 8222 [] b = 133 -> 8230 [] b = 134 -> 8224
           [] b = 135 -> 8225 [] b = 136 -> 710  [] b = 137 -> 8240
           [] b = 138 -> 352  [] b = 139 -> 8249 [] b = 140 -> 338
           [] b = 142 -> 381  [] b = 145 -> 8216 [] b = 146 -> 8217
           [] b = 147 -> 8220 [] b = 148 -> 8221 [] b = 149 -> 8226
           [] b = 150 -> 8211 [] b = 151 -> 8212 [] b = 152 -> 732
           [] b = 153 -> 8482 [] b = 154 -> 353  [] b = 155 -> 8250
           [] b = 156 -> 339  [] b = 158 -> 382  [] b = 159 -> 376

Cp1252Decode(bytes) == [i \in 1..Len(bytes) |-> Cp1252Char(bytes[i])]

\* the encoding main() reads the log with
ReadEncoding(v, loc) == IF v = "test" THEN "utf-8" ELSE loc

\* json.dump(records, f): the records as they lie in the file
Dump(recs) == [i \in 1..Len(recs) |-> [recs[i] EXCEPT !.code = Utf8Encode(@)]]

\* json.load(f) raises UnicodeDecodeError
LoadRaises(file, enc) ==
    /\ enc = "cp1252"
    /\ \E i \in 1..Len(file) : \E j \in 1..Len(file[i].code) :
           file[i].code[j] \in Cp1252Undefined

\* json.load(f): the records read from the file
Load(file, enc) ==
    [i \in 1..Len(file) |->
        [file[i] EXCEPT !.code = IF enc = "utf-8" THEN Utf8Decode(@)
                                 ELSE Cp1252Decode(@)]]

(***************************************************************************)
(* Inputs: the symbols the decoder reports, the numbers the OCR reads and  *)
(* the responses the providers give.                                       *)
(***************************************************************************)
Code11 == Text(<<1, 2, 3, 4, 5, 6, 7, 8, 9, 0, 5>>)

Code12 == Text(<<0, 1, 2, 3, 4, 5, 6, 7, 8, 9, 0, 5>>)

Code13 == Text(<<0, 0, 1, 2, 3, 4, 5, 6, 7, 8, 9, 0, 5>>)

BadCheck12 == Text(<<0, 1, 2, 3, 4, 5, 6, 7, 8, 9, 0, 6>>)

\* the one-character text U+00E9
NonAscii == <<233>>

Symbols ==
    { [text |-> <<>>,       type |-> "QR_CODE"],
      [text |-> Code11,     type |-> "UPC_A"],
      [text |-> Code12,     type |-> "UPC_A"],
      [text |-> Code13,     type |-> "EAN_13"],
      [text |-> BadCheck12, type |-> "UPC_A"],
      [text |-> Code13,     type |-> "CODE_128"],
      [text |-> NonAscii,   type |-> "QR_CODE"] }

\* the sequences of at most n symbols
RECURSIVE Frames(_)
Frames(n) ==
    IF n = 0 THEN { <<>> }
    ELSE Frames(n - 1) \cup
         { Append(f, s) : f \in { g \in Frames(n - 1) : Len(g) = n - 1 }, s \in Symbols }

\* what the two calls of extract_number_easyocr return for one frame: a
\* number where one is read, None where none is
OcrReadings == { [mrp |-> "10", quantity |-> None] }

NetError == [net |-> "error", status |-> 0, json |-> "invalid", body |-> EmptyObj]

Timeout == [net |-> "timeout", status |-> 0, json |-> "invalid", body |-> EmptyObj]

Malformed(st) == [net |-> "ok", status |-> st, json |-> "invalid", body |-> EmptyObj]

NonObject(st) == [net |-> "ok", status |-> st, json |-> "list", body |-> EmptyObj]

Json(st, b) == [net |-> "ok", status |-> st, json |-> "dict", body |-> b]

Failures == { NetError, Timeout, Malformed(200), NonObject(200) }

Responses(p) ==
    Failures \cup
    CASE p = "BarcodeMonster" ->
           { Json(200, EmptyObj),
             Json(200, [product |-> "X"]),
             Json(201, [product |-> "X"]),
             Json(404, [product |-> "X"]) }
      [] p = "UPCitemdb" ->
           { Json(200, [items |-> <<>>]),
             Json(200, [items |-> <<[title |-> "X"]>>]),
             Json(200, [items |-> <<[model |-> "X"]>>]),
             Json(200, [items |-> <<EmptyObj>>]),
             Json(404, [items |-> <<[title |-> "X"]>>]) }
      [] p = "OpenFoodFacts" ->
           { Json(200, [status |-> 0]),
             Json(200, [status |-> 1]),
             Json(200, [status |-> 1, product |-> EmptyObj]),
             Json(200, [status |-> 1, product |-> [product_name |-> "X"]]),
             Json(200, [status |-> 1,
                        product |-> [generic_name |-> "X", categories_tags |-> <<"X", "Y">>]]),
             Json(404, [status |-> 1, product |-> [product_name |-> "X"]]) }
      [] p = "BarcodeLookup" ->
           { Json(200, [products |-> <<>>]),
             Json(200, [products |-> <<[title |-> "X"]>>]),
             Json(200, [products |-> <<EmptyObj>>]),
             Json(404, [products |-> <<[title |-> "X"]>>]) }
      [] p = "SerpAPI" ->
           { Json(200, [shopping_results |-> <<>>]),
             Json(200, [shopping_results |-> <<[title |-> "X"]>>]),
             Json(200, [shopping_results |-> <<EmptyObj>>]),
             Json(404, [shopping_results |-> <<[title |-> "X"]>>]) }

\* the try-block of provider p raised and its except clause swallowed it
Raised(v, p, r) ==
    \/ r.net # "ok"
    \/ /\ ~JsonDict(r)
       /\ ~(p = "BarcodeMonster" /\ ~(IF v = "test" THEN r.status = 200 ELSE Ok(r.status)))
    \/ /\ p = "OpenFoodFacts" /\ JsonDict(r)
       /\ GetOr(r.body, "status", 0) = 1 /\ "product" \notin DOMAIN r.body

(***************************************************************************)
(* lookup_barcode, one try-block at a time.                                *)
(***************************************************************************)
\* the response is a status of 400 or above
NonSuccess(r) == r.net = "ok" /\ ~Ok(r.status)

\* mutant: the except clause re-raises
ExceptClause_Reraise(v) == "raise"

\* what the except clause of a try-block of lookup_barcode does with the
\* exception: `except Exception: pass` in test.py, `except: pass` in qr_scanner.py
ExceptClause(v) == "pass"

\* how the try-block of provider p ends on the response r: it returns from
\* lookup_barcode, falls through to the next statement, or lets an
\* exception out
Block(v, p, r) ==
    IF Raised(v, p, r) /\ ExceptClause(v) # "pass" THEN "raise"
    ELSE IF TryProvider(v, p, r).hit THEN "return"
    ELSE "next"

\* lookup_barcode from its i-th try-block on: the ways it can end, over all
\* responses of the providers; requests is the number of requests made
RECURSIVE Outcomes(_, _)
Outcomes(v, i) ==
    LET p == Providers(v)[i]
        ends == { [result |-> Block(v, p, r),
                   info |-> IF Block(v, p, r) = "return"
                            THEN TryProvider(v, p, r).info ELSE NullInfo,
                   requests |-> i] :
                  r \in { x \in Responses(p) : Block(v, p, x) # "next" } }
        falls == \E r \in Responses(p) : Block(v, p, r) = "next"
    IN  ends \cup
        (IF ~falls THEN {}
         ELSE IF i = Len(Providers(v))
         THEN { [result |-> "return", info |-> NullInfo, requests |-> i] }
         ELSE Outcomes(v, i + 1))

(***************************************************************************)
(* main(): the scan loop.                                                  *)
(*   pc = "off"      no process is running                                 *)
(*   pc = "frame"    at the top of the while loop                          *)
(*   pc = "symbols"  in the for loop over the symbols of the frame         *)
(*   pc = "lookup"   lookup_barcode is called (idx: its next try-block)    *)
(*   pc = "resolved" lookup_barcode has returned info                      *)
(*   pc = "failed"   an exception left main(): the process has died        *)
(* loaded tells whether the process found a log when it started, cur is    *)
(* the symbol of the current (or last) iteration of the for loop, clock    *)
(* the time, which every reading of datetime.now() finds advanced.         *)
(* History variables record what has happened: calls is the log of the     *)
(* requests of the current call of lookup_barcode (provider and code       *)
(* queried), trace the log of how their try-blocks ended, outcome how the  *)
(* last iteration of the for loop (or the start of the process) ended,     *)
(* everSeen every code the seen-set has ever held, exhausted every code    *)
(* whose lookup main() has passed over for want of a value.                *)
(***************************************************************************)
NoSymbol == [text |-> <<>>, type |-> ""]

NoOcr == [mrp |-> None, quantity |-> None]

NoDisk == [state |-> "absent", file |-> <<>>]

Codes(recs) == { recs[i].code : i \in 1..Len(recs) }

\* mutant: every result of the lookup counts as having a value
AnyValue_Always(i) == TRUE

\* any(info.values())
AnyValue(i) ==
    Truthy(i.title) \/ Truthy(i.brand) \/ Truthy(i.description) \/ Truthy(i.category)

\* the rec dictionary main() builds
MakeRecord(v, now, sym, o, i) ==
    IF v = "test"
    THEN [timestamp |-> now, type |-> sym.type, code |-> sym.text,
          title |-> i.title, brand |-> i.brand,
          description |-> i.description, category |-> i.category]
    ELSE [timestamp |-> now, code |-> sym.text,
          mrp |-> o.mrp, quantity |-> o.quantity,
          title |-> i.title, brand |-> i.brand,
          description |-> i.description, category |-> i.category]

\* mutant: a symbol of another type passes without validation
Validation_PassThrough(v, sym) ==
    IF v # "test" THEN "accept"
    ELSE IF sym.type = "UPC_A"
         THEN IF validate_upca_raises(sym.text) THEN "raise"
              ELSE IF validate_upca(sym.text) THEN "accept" ELSE "skip"
    ELSE IF sym.type \in {"EAN_8", "EAN_13"}
         THEN IF validate_ean_generic_raises(sym.text) THEN "raise"
              ELSE IF validate_ean_generic(sym.text) THEN "accept" ELSE "skip"
    ELSE "accept"

\* the checksum validation of test.py's main(): "accept", "skip" or "raise"
Validation(v, sym) ==
    IF v # "test" THEN "accept"
    ELSE IF sym.type = "UPC_A"
         THEN IF validate_upca_raises(sym.text) THEN "raise"
              ELSE IF validate_upca(sym.text) THEN "accept" ELSE "skip"
    ELSE IF sym.type \in {"EAN_8", "EAN_13"}
         THEN IF validate_ean_generic_raises(sym.text) THEN "raise"
              ELSE IF validate_ean_generic(sym.text) THEN "accept" ELSE "skip"
    ELSE "skip"

\* mutant: the test `code in seen` is forgotten
Skipped_NoSeen(sym, sn) == sym.text = <<>>

\* mutant: the test `not code` is forgotten
Skipped_NoEmpty(sym, sn) == sym.text \in sn

\* `if not code or code in seen: continue`
Skipped(sym, sn) == sym.text = <<>> \/ sym.text \in sn

Init ==
    /\ variant \in {"test", "qr"}
    /\ locale \in {"utf-8", "cp1252"}
    \* test.py never consults the locale: one value stands for all
    /\ variant = "test" => locale = "utf-8"
    /\ pc = "off"
    /\ disk = NoDisk
    /\ loaded = FALSE
    /\ records = <<>>
    /\ seen = {}
    /\ clock = 0
    /\ ocr = NoOcr
    /\ queue = <<>>
    /\ cur = NoSymbol
    /\ code = <<>>
    /\ idx = 0
    /\ calls = <<>>
    /\ trace = <<>>
    /\ info = NullInfo
    /\ outcome = "none"
    /\ everSeen = {}
    /\ exhausted = {}

\* a process starts: the log is loaded, the seen-set rebuilt, the camera opened
Start ==
    /\ pc \in {"off", "failed"}
    /\ queue' = <<>> /\ cur' = NoSymbol /\ code' = <<>>
    /\ calls' = <<>> /\ info' = NullInfo /\ ocr' = NoOcr
    /\ loaded' = (disk.state # "absent")
    /\ UNCHANGED <<variant, locale, disk, clock, idx, trace>>
    /\ IF disk.state = "absent"
       THEN /\ records' = <<>>
            /\ seen' = {}
            /\ outcome' = "none"
            /\ \E opened \in BOOLEAN : pc' = IF opened THEN "frame" ELSE "off"
       ELSE IF disk.state = "corrupt" \/ LoadRaises(disk.file, ReadEncoding(variant, locale))
       THEN /\ records' = <<>>
            /\ seen' = {}
            /\ outcome' = "load raised"
            /\ pc' = "failed"
       ELSE /\ records' = Load(disk.file, ReadEncoding(variant, locale))
            /\ seen' = Codes(records')
            /\ outcome' = "none"
            /\ \E opened \in BOOLEAN : pc' = IF opened THEN "frame" ELSE "off"
    /\ everSeen' = everSeen \cup seen'
    /\ exhausted' = exhausted

\* the smaller of two numbers
Min(a, b) == IF a < b THEN a ELSE b

\* cap.read() and the decoder: the symbols of one frame, and the OCR values.
\* No frame is read once MaxRecords records have been appended, and a frame
\* has no more symbols than records may still be appended.
ReadFrame ==
    /\ pc = "frame"
    /\ clock < MaxRecords
    /\ \E f \in Frames(Min(MaxSymbols, MaxRecords - clock)) : queue' = f
    /\ IF variant = "qr"
       THEN \E o \in OcrReadings : ocr' = o
       ELSE ocr' = NoOcr
    /\ pc' = "symbols"
    /\ UNCHANGED <<variant, locale, disk, loaded, records, seen, clock, cur,
                   code, idx, calls, trace, info, outcome, everSeen,
                   exhausted>>

\* cap.read() returns ret = False: break, the finally block, main() returns
CameraEnds ==
    /\ pc = "frame"
    /\ pc' = "off"
    /\ UNCHANGED <<variant, locale, disk, loaded, records, seen, clock, ocr,
                   queue, cur, code, idx, calls, trace, info, outcome, everSeen,
                   exhausted>>

\* one iteration of the for loop, up to the call of lookup_barcode and the
\* normalization at its head
NextSymbol ==
    /\ pc = "symbols"
    /\ queue # <<>>
    /\ cur' = Head(queue)
    /\ queue' = Tail(queue)
    /\ calls' = <<>>
    /\ info' = NullInfo
    /\ IF Skipped(cur', seen)
       THEN pc' = "symbols" /\ outcome' = "skipped" /\ code' = <<>>
       ELSE IF Validation(variant, cur') = "skip"
       THEN pc' = "symbols" /\ outcome' = "invalid" /\ code' = <<>>
       ELSE IF Validation(variant, cur') = "raise"
       THEN pc' = "failed" /\ outcome' = "validation raised" /\ code' = <<>>
       ELSE pc' = "lookup" /\ outcome' = "lookup" /\ code' = Normalize(cur'.text)
    /\ UNCHANGED <<variant, locale, disk, loaded, records, seen, clock, ocr,
                   idx, trace, everSeen,
                   exhausted>>

\* the whole chain of try-blocks of one call of lookup_barcode
Lookup ==
    /\ pc = "lookup"
    /\ \E o \in Outcomes(variant, 1) :
         /\ calls' = [i \in 1..o.requests |->
                        [provider |-> Providers(variant)[i], code |-> code]]
         /\ info' = o.info
         /\ pc' = IF o.result = "raise" THEN "failed" ELSE "resolved"
         /\ outcome' = IF o.result = "raise" THEN "lookup raised" ELSE outcome
    /\ UNCHANGED <<variant, locale, disk, loaded, records, seen, clock, ocr,
                   queue, cur, code, idx, trace, everSeen,
                   exhausted>>

\* mutant: the code is not added to the seen-set
SeenAdd_Forgotten(sn, c) == sn

\* seen.add(code)
SeenAdd(sn, c) == sn \cup {c}

\* mutant: the exception of the rewrite is swallowed and the loop goes on
OnWriteError_Swallow == "swallow"

\* what happens to an exception of the rewrite of the log: no except clause
\* encloses it, the finally block runs and the exception leaves main()
OnWriteError == "propagate"

\* the rest of the iteration: the record is appended, the code joins the
\* seen-set and the whole log is rewritten; the write succeeds, or open()
\* raises and leaves the file as it was, or the write breaks off and leaves
\* a file that is no JSON document.  The locals of lookup_barcode are dead.
Record ==
    /\ pc = "resolved"
    /\ IF variant = "test" /\ ~AnyValue(info)
       THEN /\ pc' = "symbols"
            /\ outcome' = "unrecorded"
            /\ exhausted' = exhausted \cup {cur.text}
            /\ UNCHANGED <<records, seen, disk, clock, everSeen>>
       ELSE /\ clock' = clock + 1
            /\ records' = Append(records, MakeRecord(variant, clock', cur, ocr, info))
            /\ seen' = SeenAdd(seen, cur.text)
            /\ everSeen' = everSeen \cup seen'
            /\ exhausted' = exhausted
            /\ \E w \in {"written", "open raises", "write raises"} :
                 /\ disk' = CASE w = "written" -> [state |-> "ok", file |-> Dump(records')]
                              [] w = "open raises" -> disk
                              [] w = "write raises" -> [state |-> "corrupt", file |-> <<>>]
                 /\ outcome' = IF w = "written" THEN "recorded" ELSE "write failed"
                 /\ pc' = IF w = "written" \/ OnWriteError # "propagate"
                          THEN "symbols" ELSE "failed"
    /\ code' = <<>> /\ calls' = <<>> /\ info' = NullInfo
    /\ UNCHANGED <<variant, locale, loaded, ocr, queue, cur, idx, trace>>

\* the end of the iteration of the while loop: the frame is shown, and
\* either 'q' was pressed (break, main() returns) or the loop goes on
EndFrame ==
    /\ pc = "symbols"
    /\ queue = <<>>
    /\ \E quit \in BOOLEAN : pc' = IF quit THEN "off" ELSE "frame"
    /\ cur' = NoSymbol
    /\ outcome' = "none"
    /\ UNCHANGED <<variant, locale, disk, loaded, records, seen, clock, ocr,
                   queue, code, idx, calls, trace, info, everSeen,
                   exhausted>>

Next ==
    \/ Start
    \/ ReadFrame
    \/ CameraEnds
    \/ NextSymbol
    \/ Lookup
    \/ Record
    \/ EndFrame

Spec == Init /\ [][Next]_vars

(***************************************************************************)
(* lookup_barcode on its own: one call, on the text of any symbol, taken   *)
(* one try-block at a time.                                                *)
(***************************************************************************)
InitResolver ==
    /\ variant \in {"test", "qr"}
    /\ locale = "utf-8"
    /\ pc = "lookup"
    /\ disk = NoDisk
    /\ loaded = FALSE
    /\ records = <<>>
    /\ seen = {}
    /\ clock = 0
    /\ ocr = NoOcr
    /\ queue = <<>>
    /\ cur \in { s \in Symbols : s.text # <<>> }
    /\ code = Normalize(cur.text)
    /\ idx = 1
    /\ calls = <<>>
    /\ trace = <<>>
    /\ info = NullInfo
    /\ outcome = "lookup"
    /\ everSeen = {}
    /\ exhausted = {}

\* one try-block of lookup_barcode: the request to provider idx and what the
\* block does with the response; after the last block, the fallback return
Request ==
    /\ pc = "lookup"
    /\ LET p == Providers(variant)[idx]
       IN  \E r \in Responses(p) :
             /\ calls' = Append(calls, [provider |-> p, code |-> code])
             /\ trace' = Append(trace,
                   [outcome |-> IF TryProvider(variant, p, r).hit THEN "hit"
                                ELSE IF Raised(variant, p, r) THEN "raised"
                                ELSE "miss",
                    nonsuccess |-> NonSuccess(r),
                    info |-> TryProvider(variant, p, r).info])
             /\ CASE Block(variant, p, r) = "raise" ->
                       info' = info /\ pc' = "failed" /\ idx' = idx
                       /\ outcome' = "lookup raised"
                  [] Block(variant, p, r) = "return" ->
                       info' = TryProvider(variant, p, r).info /\ pc' = "resolved"
                       /\ idx' = idx /\ outcome' = outcome
                  [] Block(variant, p, r) = "next" ->
                       /\ outcome' = outcome
                       /\ IF idx = Len(Providers(variant))
                          THEN info' = NullInfo /\ pc' = "resolved" /\ idx' = idx
                          ELSE info' = info /\ pc' = "lookup" /\ idx' = idx + 1
    /\ UNCHANGED <<variant, locale, disk, loaded, records, seen, clock, ocr,
                   queue, cur, code, everSeen,
                   exhausted>>

NextResolver == Request

SpecResolver == InitResolver /\ [][NextResolver]_vars

\* lookup_barcode is straight-line code and every requests.get it makes has
\* timeout=3, so it returns or raises: a try-block that has been reached
\* ends
SpecResolverFair == SpecResolver /\ WF_vars(Request)

\* the chain taken whole ends exactly as the chain taken block by block
LookupIsChain ==
    pc = "resolved" =>
        [result |-> "return", info |-> info, requests |-> Len(calls)]
            \in Outcomes(variant, 1)

(***************************************************************************)
(* The validators on their own: validate_ean_generic or validate_upca,     *)
(* whichever the type of the symbol selects in main(), is called once on   *)
(* the text of the symbol.                                                 *)
(***************************************************************************)
\* the text with the character at position i replaced by ch
Replace(t, i, ch) == [t EXCEPT ![i] = ch]

\* the text of decimal digits written with the Arabic-Indic digits
ArabicIndic(t) == [i \in 1..Len(t) |-> t[i] - 48 + 1632]

\* 13-character texts: 12 digits, three of them varying, and every final digit
Texts13 ==
    { Text(<<a, 0, 1, 2, 3, 4, 5, 6, 7, 8, b, c, d>>) : a, b, c, d \in 0..9 }

\* 8-character texts: 7 digits, two of them varying, and every final digit
Texts8 ==
    { Text(<<a, 6, 3, 8, 5, 0, b, d>>) : a, b, d \in 0..9 }

\* 12-character texts: 11 digits, two of them varying, and every final
\* digit; "036000291452" is among them
Texts12 ==
    { Text(<<a, 3, 6, 0, 0, 0, 2, 9, 1, 4, b, d>>) : a, b, d \in 0..9 }

\* texts of every length from 0 to 14
TextsOfLength ==
    { SubSeq(Text(<<0, 0, 1, 2, 3, 4, 5, 6, 7, 8, 9, 0, 5, 9>>), 1, n) : n \in 0..14 }

\* characters that are no ASCII digit: "-", "A", the superscript two and an
\* Arabic-Indic digit
OtherChars == {45, 65, 178, 1637}

\* texts of the lengths the validators accept with one character replaced,
\* or written with Arabic-Indic digits throughout
TextsWithOthers ==
    LET base == { Code13, Code12, Text(<<9, 6, 3, 8, 5, 0, 7, 4>>) }
    IN  { Replace(t, i, ch) : t \in base, i \in {1, 7, 8}, ch \in OtherChars }
        \cup { Replace(t, Len(t), ch) : t \in base, ch \in OtherChars }
        \cup { ArabicIndic(Replace(t, Len(t), 48 + d)) : t \in base, d \in 0..9 }

ValidatorTexts ==
    Texts13 \cup Texts8 \cup Texts12 \cup TextsOfLength \cup TextsWithOthers

InitValidator ==
    /\ variant = "test"
    /\ locale = "utf-8"
    /\ pc = "validate"
    /\ disk = NoDisk
    /\ loaded = FALSE
    /\ records = <<>>
    /\ seen = {}
    /\ clock = 0
    /\ ocr = NoOcr
    /\ queue = <<>>
    /\ cur \in { [text |-> t, type |-> ty] :
                   t \in ValidatorTexts, ty \in {"EAN_13", "UPC_A"} }
    /\ code = <<>>
    /\ idx = 0
    /\ calls = <<>>
    /\ trace = <<>>
    /\ info = NullInfo
    /\ outcome = "none"
    /\ everSeen = {}
    /\ exhausted = {}

\* validate_ean_generic(code): returns True, returns False or raises
ValidateEan ==
    /\ pc = "validate"
    /\ cur.type \in {"EAN_8", "EAN_13"}
    /\ pc' = "validated"
    /\ outcome' = IF validate_ean_generic_raises(cur.text) THEN "raised"
                  ELSE IF validate_ean_generic(cur.text) THEN "valid" ELSE "invalid"
    /\ UNCHANGED <<variant, locale, disk, loaded, records, seen, clock, ocr,
                   queue, cur, code, idx, calls, trace, info, everSeen,
                   exhausted>>

\* validate_upca(code): returns True, returns False or raises
ValidateUpca ==
    /\ pc = "validate"
    /\ cur.type = "UPC_A"
    /\ pc' = "validated"
    /\ outcome' = IF validate_upca_raises(cur.text) THEN "raised"
                  ELSE IF validate_upca(cur.text) THEN "valid" ELSE "invalid"
    /\ UNCHANGED <<variant, locale, disk, loaded, records, seen, clock, ocr,
                   queue, cur, code, idx, calls, trace, info, everSeen,
                   exhausted>>

NextValidator ==
    \/ ValidateEan
    \/ ValidateUpca

SpecValidator == InitValidator /\ [][NextValidator]_vars

(***************************************************************************)
(* validate_ean_generic called on a text and on the text with one digit    *)
(* replaced by another: cur holds the text, code the text with the         *)
(* replacement, trace what the second call gave.                           *)
(***************************************************************************)
\* 13-character and 8-character texts: digits, the first and the last two
\* of them varying
ChangeTexts ==
    { Text(<<a, 0, 1, 2, 3, 4, 5, 6, 7, 8, 9, b, d>>) : a, b, d \in 0..9 }
    \cup { Text(<<a, 6, 3, 8, 5, 0, b, d>>) : a, b, d \in 0..9 }

\* the text with one of its digits replaced by a different digit
Changes(t) ==
    { Replace(t, i, 48 + d) : i \in 1..Len(t), d \in 0..9 } \ {t}

InitChange ==
    /\ variant = "test"
    /\ locale = "utf-8"
    /\ pc = "validate"
    /\ disk = NoDisk
    /\ loaded = FALSE
    /\ records = <<>>
    /\ seen = {}
    /\ clock = 0
    /\ ocr = NoOcr
    /\ queue = <<>>
    /\ cur \in { [text |-> t, type |-> "EAN_13"] : t \in ChangeTexts }
    /\ code = cur.text
    /\ idx = 0
    /\ calls = <<>>
    /\ trace = <<>>
    /\ info = NullInfo
    /\ outcome = "none"
    /\ everSeen = {}
    /\ exhausted = {}

\* validate_ean_generic on a text that differs in one digit from the text
\* it has accepted
ValidateChanged ==
    /\ pc = "validated"
    /\ outcome = "valid"
    /\ \E t \in Changes(cur.text) :
         /\ code' = t
         /\ trace' = <<IF validate_ean_generic_raises(t) THEN "raised"
                       ELSE IF validate_ean_generic(t) THEN "valid" ELSE "invalid">>
    /\ pc' = "changed"
    /\ UNCHANGED <<variant, locale, disk, loaded, records, seen, clock, ocr,
                   queue, cur, idx, calls, info, outcome, everSeen, exhausted>>

NextChange ==
    \/ ValidateEan
    \/ ValidateChanged

SpecChange == InitChange /\ [][NextChange]_vars

(***************************************************************************)
(* The normalization at the head of lookup_barcode on its own, applied to  *)
(* a text and then to what it gave.                                        *)
(***************************************************************************)
\* characters of the texts: "0", "1", "A" and the superscript two
NormalizerChars == {48, 49, 65, 178}

\* texts of every length from 0 to 14: a first character, a last character
\* and one character repeated between them
NormalizerTexts ==
    { [i \in 1..n |-> IF i = 1 THEN a ELSE IF i = n THEN z ELSE f] :
        n \in 0..14, a \in NormalizerChars, f \in NormalizerChars, z \in NormalizerChars }
    \cup { Code11, Code12, Code13 }

InitNormalizer ==
    /\ variant \in {"test", "qr"}
    /\ locale = "utf-8"
    /\ pc = "normalize"
    /\ disk = NoDisk
    /\ loaded = FALSE
    /\ records = <<>>
    /\ seen = {}
    /\ clock = 0
    /\ ocr = NoOcr
    /\ queue = <<>>
    /\ cur \in { [text |-> t, type |-> "QR_CODE"] : t \in NormalizerTexts }
    /\ code = cur.text
    /\ idx = 0
    /\ calls = <<>>
    /\ trace = <<>>
    /\ info = NullInfo
    /\ outcome = "none"
    /\ everSeen = {}
    /\ exhausted = {}

\* the if/elif at the head of lookup_barcode: code is rebound; trace keeps
\* the values it has been given
ApplyNormalize ==
    /\ pc = "normalize"
    /\ idx < MaxApplications
    /\ code' = Normalize(code)
    /\ trace' = Append(trace, code')
    /\ idx' = idx + 1
    /\ pc' = IF idx' = MaxApplications THEN "normalized" ELSE "normalize"
    /\ UNCHANGED <<variant, locale, disk, loaded, records, seen, clock, ocr,
                   queue, cur, calls, info, outcome, everSeen,
                   exhausted>>

NextNormalizer == ApplyNormalize

SpecNormalizer == InitNormalizer /\ [][NextNormalizer]_vars

(***************************************************************************)
(* Properties.                                                             *)
(***************************************************************************)
\* no two records of the list carry the same code
UniqueCodes(recs) ==
    \A i, j \in 1..Len(recs) : recs[i].code = recs[j].code => i = j

\* a ProductInfo with at least one non-null field
Usable(i) ==
    i.title # None \/ i.brand # None \/ i.description # None \/ i.category # None

\* the symbol is of a checksummed type and its text fails the checksum
\* validation of that type
FailsValidation(sym) ==
    \/ sym.type = "UPC_A" /\ ~validate_upca(sym.text)
    \/ sym.type \in {"EAN_8", "EAN_13"} /\ ~validate_ean_generic(sym.text)

C2_NeverLookedUpAgain ==
    pc \in {"lookup", "resolved"} => cur.text \notin everSeen

\* C3 (as claimed): two symbols whose texts normalize to the same value
\* produce at most one Record.
C3_NormalizedDedup ==
    \A i, j \in 1..Len(records) :
        Normalize(records[i].code) = Normalize(records[j].code) => i = j

\* C4: within one call of lookup_barcode the i-th request goes to the i-th
\* provider of the fixed order, and a provider that returned usable data is
\* the last one requested: the call has returned.
C4_FixedOrderShortCircuit ==
    /\ Len(calls) <= Len(Providers(variant))
    /\ Len(trace) = Len(calls)
    /\ \A i \in 1..Len(calls) :
         /\ calls[i].provider = Providers(variant)[i]
         /\ Usable(trace[i].info) => (i = Len(calls) /\ pc = "resolved")

\* C4 witness: provider 1 returned usable data and lookup_barcode returned
\* with a single request made.
C4_Witness ==
    /\ pc = "resolved" /\ Len(calls) = 1
    /\ calls[1].provider = "BarcodeMonster" /\ Usable(trace[1].info)
    /\ info = trace[1].info

\* C5 (as claimed): lookup_barcode returns a provider's result only if it
\* has a non-null field, and returns the all-null ProductInfo only after
\* every provider of the list has been requested.
C5_UsableOrExhausted ==
    pc = "resolved" =>
        /\ trace[Len(trace)].outcome = "hit" => Usable(info)
        /\ ~Usable(info) => Len(calls) = Len(Providers(variant))

\* C6: an exception in the try-block of a provider never leaves
\* lookup_barcode: the next provider is (about to be) requested, or, after
\* the last provider, the all-null ProductInfo is returned; what is
\* returned is always a ProductInfo.
C6_FailureIsolated ==
    /\ pc \in {"lookup", "resolved"}
    /\ \A i \in 1..Len(trace) :
         trace[i].outcome = "raised" =>
            \/ i < Len(trace)
            \/ pc = "lookup" /\ idx = i + 1
            \/ i = Len(Providers(variant)) /\ pc = "resolved"
               /\ info.title = None /\ info.brand = None
               /\ info.description = None /\ info.category = None
    /\ pc = "resolved" =>
         DOMAIN info = {"title", "brand", "description", "category"}

\* C6 witness: a provider failed, a later provider was requested and its
\* result was returned.
C6_Witness ==
    /\ pc = "resolved" /\ Len(trace) >= 2
    /\ trace[1].outcome = "raised"
    /\ trace[Len(trace)].outcome = "hit" /\ info = trace[Len(trace)].info

\* C7 (as claimed): a response with a non-success status is never the
\* result of lookup_barcode, whichever provider gave it.
C7_NonSuccessIsFailure ==
    \A i \in 1..Len(trace) : trace[i].nonsuccess => trace[i].outcome # "hit"

\* C8: when every provider requested has failed, missed or returned nothing
\* usable, lookup_barcode returns the ProductInfo whose four fields are null.
C8_ExhaustedAllNull ==
    (/\ pc = "resolved"
     /\ \A i \in 1..Len(trace) :
          trace[i].outcome \in {"raised", "miss"} \/ ~Usable(trace[i].info))
    => /\ info.title = None /\ info.brand = None
       /\ info.description = None /\ info.category = None

\* C8 witness: every provider of the chain was requested, some failed, some
\* answered without a product, and lookup_barcode has returned.
C8_Witness ==
    /\ pc = "resolved" /\ Len(trace) = Len(Providers(variant))
    /\ \A i \in 1..Len(trace) : trace[i].outcome \in {"raised", "miss"}
    /\ \E i \in 1..Len(trace) : trace[i].outcome = "raised"
    /\ \E i \in 1..Len(trace) : trace[i].outcome = "miss"
    /\ info.title = None

\* C9 (as claimed): a symbol that fails the validation of its type is
\* discarded: no lookup starts, and the record list, the seen-set and the
\* log stay as they are.
C9_InvalidDiscarded ==
    [][ (pc = "symbols" /\ queue # <<>> /\ FailsValidation(Head(queue)))
          => (pc' # "lookup" /\ records' = records /\ seen' = seen /\ disk' = disk) ]_vars

\* C10: a failure of the rewrite of the log leaves main() and ends the
\* process: the only step that follows is the start of a new process, so
\* the failed process appends no record and makes no request.
C10_WriteFailureFatal ==
    [][ /\ outcome' = "write failed" => pc' = "failed"
        /\ outcome = "write failed" => Start ]_vars

\* C10 witness: a write has failed with records still to come.
C10_Witness ==
    outcome = "write failed" /\ pc = "failed" /\ clock < MaxRecords

\* the record list the log file holds: the JSON document, read in the
\* encoding it is written in; no file, or a file that is no JSON document,
\* holds no record
Written(d) == IF d.state = "ok" THEN Load(d.file, "utf-8") ELSE <<>>

\* the list a is a prefix of the list b
IsPrefix(a, b) == Len(a) <= Len(b) /\ SubSeq(b, 1, Len(a)) = a

\* the types test.py's main() validates
ChecksummedTypes == {"UPC_A", "EAN_8", "EAN_13"}

\* C11 (as claimed): once the write of a new record has completed the log
\* holds exactly the in-memory record list, and at every frame boundary
\* (reached only by a run without write failure) the log holds exactly the
\* in-memory record list.
C11_LogIsList ==
    /\ outcome = "recorded" => (disk.state = "ok" /\ Written(disk) = records)
    /\ pc = "frame" => Written(disk) = records

\* C12 (as claimed): a process that starts on a written log gets the record
\* list the log holds and the seen-set of its codes, and starts; a process
\* that starts without a log gets the empty list and the empty set.
C12_RoundTrip ==
    [][ Start =>
          /\ disk.state = "ok" =>
               /\ outcome' # "load raised"
               /\ records' = Written(disk)
               /\ seen' = Codes(Written(disk))
          /\ disk.state = "absent" => (records' = <<>> /\ seen' = {}) ]_vars

\* C13 (as claimed): the log only grows at its end, over every step and
\* every restart, and within a run so does the in-memory record list.
C13_AppendOnly ==
    [][ /\ IsPrefix(Written(disk), Written(disk'))
        /\ ~Start => IsPrefix(records, records') ]_vars

\* C14: a symbol whose text is empty or in the seen-set leaves the record
\* list, the seen-set and the log as they are, and starts no lookup.
C14_RejectedNoEffect ==
    [][ (/\ pc = "symbols" /\ queue # <<>>
         /\ (Head(queue).text = <<>> \/ Head(queue).text \in seen))
          => /\ records' = records /\ seen' = seen /\ disk' = disk
             /\ pc' = "symbols" /\ calls' = <<>> ]_vars

\* C14 witness: with a record in the list, a symbol with an empty text has
\* been detected and passed over.
C14_Witness ==
    /\ pc = "symbols" /\ outcome = "skipped" /\ cur.type # ""
    /\ cur.text = <<>> /\ records # <<>>

\* a decimal digit: a character of the Unicode category Nd, of which the
\* texts here hold the ASCII and the Arabic-Indic digits
IsDecimalChar(ch) == ch \in 48..57 \/ ch \in 1632..1641

\* the value of a decimal digit
DigitOf(ch) == IF ch \in 48..57 THEN ch - 48 ELSE ch - 1632

AllDecimal(t) == \A i \in 1..Len(t) : IsDecimalChar(t[i])

\* the EAN-13 check digit of 12 digits: weights 3, 1, 3, ... from the
\* rightmost of them
CheckDigit13(t) ==
    LET d(i) == DigitOf(t[i])
        total == 3 * (d(12) + d(10) + d(8) + d(6) + d(4) + d(2))
                 + (d(11) + d(9) + d(7) + d(5) + d(3) + d(1))
    IN  (10 - (total % 10)) % 10

\* a text of 13 decimal digits whose last is the check digit of the others
PassesEan13(t) ==
    Len(t) = 13 /\ AllDecimal(t) /\ DigitOf(t[13]) = CheckDigit13(t)

\* C15 (as claimed): of the 13-digit texts exactly those whose last digit is
\* the check digit of the first 12 pass validate_ean_generic, and a text
\* whose length is not 8 or 13, or that holds a character that is no decimal
\* digit, fails: validate_ean_generic returns False.
C15_EanCheckDigit ==
    (pc = "validated" /\ cur.type = "EAN_13") =>
        /\ (Len(cur.text) = 13 /\ \A i \in 1..13 : cur.text[i] \in 48..57)
             => (outcome = "valid" <=> DigitOf(cur.text[13]) = CheckDigit13(cur.text))
        /\ (Len(cur.text) \notin {8, 13} \/ ~AllDecimal(cur.text))
             => outcome = "invalid"

\* C16: validate_upca returns True exactly for the texts of 12 decimal
\* digits that pass the EAN-13 validation with "0" in front, and
\* "036000291452" is one of them.
C16_UpcaIsEan13 ==
    (pc = "validated" /\ cur.type = "UPC_A") =>
        /\ outcome = "valid" <=>
             (/\ Len(cur.text) = 12 /\ AllDecimal(cur.text)
              /\ PassesEan13(<<48>> \o cur.text))
        /\ cur.text = Text(<<0, 3, 6, 0, 0, 0, 2, 9, 1, 4, 5, 2>>) => outcome = "valid"

\* C16 witness: validate_upca has accepted "036000291452".
C16_Witness ==
    /\ pc = "validated" /\ cur.type = "UPC_A" /\ outcome = "valid"
    /\ cur.text = Text(<<0, 3, 6, 0, 0, 0, 2, 9, 1, 4, 5, 2>>)

\* C17: every further application of the normalization gives what the first
\* gave, and "12345678905" and "0012345678905" are both given
\* "012345678905".
C17_NormalizeIdempotent ==
    /\ \A i \in 1..Len(trace) : trace[i] = trace[1]
    /\ (trace # <<>> /\ cur.text \in {Code11, Code13}) => trace[1] = Code12

\* C17 witness: the normalization has changed an 11-digit text and has been
\* applied to the result.
C17_Witness ==
    /\ cur.text = Code11 /\ Len(trace) >= 2
    /\ trace[1] # cur.text /\ trace[2] = Code12

\* the number of try-blocks of lookup_barcode, each with one requests.get
ChainLength(v) == IF v = "test" THEN 5 ELSE 4

\* C18: a call of lookup_barcode never requests a provider twice nor makes
\* more requests than the chain has providers, and it returns.
C18_TerminatesWithinN ==
    /\ [](/\ Len(calls) <= ChainLength(variant)
          /\ \A i, j \in 1..Len(calls) :
               calls[i].provider = calls[j].provider => i = j)
    /\ <>(pc = "resolved")

\* C18 witness: every provider of the chain has failed, each requested once,
\* and lookup_barcode has returned.
C18_Witness ==
    /\ pc = "resolved" /\ Len(calls) = ChainLength(variant)
    /\ \A i \in 1..Len(trace) : trace[i].outcome = "raised"

\* C19: in test.py's main() a symbol of a type other than UPC_A, EAN_8 and
\* EAN_13 starts no lookup and changes neither the record list nor the log,
\* and no lookup and no record is ever for a symbol of such a type.
C19_OtherTypesRejected ==
    [][ variant = "test" =>
          /\ (/\ pc = "symbols" /\ queue # <<>>
              /\ Head(queue).type \notin ChecksummedTypes)
               => /\ pc' = "symbols" /\ calls' = <<>>
                  /\ records' = records /\ disk' = disk
          /\ pc' \in {"lookup", "resolved"} => cur'.type \in ChecksummedTypes
          /\ \A i \in 1..Len(records') : records'[i].type \in ChecksummedTypes ]_vars

\* C19 witness: test.py's main() has passed over a symbol of another type
\* whose text would pass the EAN-13 validation.
C19_Witness ==
    /\ variant = "test" /\ pc = "symbols" /\ outcome = "invalid"
    /\ cur.type = "CODE_128" /\ validate_ean_generic(cur.text)

\* C20: at the top of the while loop the seen-set is exactly the set of the
\* codes of the records of the in-memory list.
C20_SeenIsCodes ==
    pc = "frame" => seen = Codes(records)

\* C20 witness: a frame boundary of a run that loaded a record and has
\* appended another.
C20_Witness ==
    /\ pc = "frame" /\ loaded /\ Len(records) = 2
    /\ Len(Written(disk)) = 2

C22_SingleChangeFails ==
    pc = "changed" =>
        /\ outcome = "valid"
        /\ Len(code) = Len(cur.text)
        /\ Cardinality({ i \in 1..Len(code) : code[i] # cur.text[i] }) = 1
        /\ trace = <<"invalid">>

\* C22 witness: a digit other than the check digit of an accepted 13-digit
\* text has been replaced and the text validated again.
C22_Witness ==
    /\ pc = "changed" /\ outcome = "valid" /\ Len(code) = 13
    /\ code[13] = cur.text[13] /\ code[6] # cur.text[6]
    /\ trace = <<"invalid">>

====
